---- MODULE Spec2Model ----
(***************************************************************************)
(* The RTC pipeline scripts of grfn-s1tbx-rtc as a state machine.          *)
(*   src/src/rtc.py  the current script ("new"): gpt(), cleanup(),         *)
(*                   process_img_files(), the optional layover branch      *)
(*   src/rtc.py      the first script ("old"): the same chain written out  *)
(*                   statement by statement, no Multilook, no layover      *)
(* The working directory, the output directory and the external commands' *)
(* results are the environment: a command's return code and the files it   *)
(* leaves are chosen nondeterministically.                                 *)
(***************************************************************************)
EXTENDS Integers, Sequences, FiniteSets, TLC

VARIABLES
    script,        \* "new" (src/src/rtc.py) or "old" (src/rtc.py)
    argv,          \* the command line: [granule, layover]
    args,          \* get_args(): [granule, layover]
    pc,            \* position in __main__ before the stage chain
    ip,            \* index of the current statement of the chain
    ph,            \* position inside the current statement
    feed,          \* feed.entry of CMR's answer, <<>> before it came
    download_url,  \* get_download_url()'s result
    env,           \* local_file, terrain_flattening_file
    fs,            \* working directory: path -> file or directory
    output,        \* /output: path -> product or sidecar
    netrc,         \* ~/.netrc has been written
    todo,          \* os.listdir entries the export loop has not visited
    cur,           \* file_name of the band being exported
    trace,         \* external commands and deletions, in program order
    exc,           \* the uncaught exception that ended the run, or ""
    exitCode       \* the process's exit status once pc = "exited"

vars == <<script, argv, args, pc, ip, ph, feed, download_url, env, fs, output,
          netrc, todo, cur, trace, exc, exitCode>>

----------------------------------------------------------------------------
(* Bounds of the model *)

\* os.listdir of a data directory returns at most this many entries
MaxFiles == 2
\* external commands exit with a status in 0..MaxStatus, or die on a signal
MaxStatus == 2

----------------------------------------------------------------------------
(* Python string operations, computed as Python computes them *)

None == "None"

Min(a, b) == IF a < b THEN a ELSE b
Max(a, b) == IF a > b THEN a ELSE b

\* s[a:b]
PySlice(s, a, b) ==
    LET n  == Len(s)
        lo == IF a < 0 THEN Max(n + a, 0) ELSE Min(a, n)
        hi == IF b < 0 THEN Max(n + b, 0) ELSE Min(b, n)
    IN  IF hi <= lo THEN "" ELSE SubSeq(s, lo + 1, hi)

\* s.endswith(suffix)
EndsWith(s, suffix) ==
    /\ Len(suffix) <= Len(s)
    /\ SubSeq(s, Len(s) - Len(suffix) + 1, Len(s)) = suffix

StartsWith(s, prefix) ==
    /\ Len(prefix) <= Len(s)
    /\ SubSeq(s, 1, Len(prefix)) = prefix

\* sub in s
RECURSIVE Contains(_, _)
Contains(s, sub) ==
    IF Len(s) < Len(sub) THEN FALSE
    ELSE IF StartsWith(s, sub) THEN TRUE
    ELSE Contains(SubSeq(s, 2, Len(s)), sub)

\* s.replace(old, new)
RECURSIVE Replace(_, _, _)
Replace(s, old, new) ==
    IF Len(s) < Len(old) THEN s
    ELSE IF StartsWith(s, old)
         THEN new \o Replace(SubSeq(s, Len(old) + 1, Len(s)), old, new)
    ELSE SubSeq(s, 1, 1) \o Replace(SubSeq(s, 2, Len(s)), old, new)

\* s.split("/")[-1]
RECURSIVE LastSegment(_)
LastSegment(s) ==
    IF ~Contains(s, "/") THEN s ELSE LastSegment(SubSeq(s, 2, Len(s)))

\* bool(s) for a str, as argparse's type=bool applies it
PyBool(s) == s # ""

\* truth value of args.layover: None, or the one-element tuple of a bool
Truthy(x) == x # <<>> /\ x[1]

----------------------------------------------------------------------------
(* The environment's inputs *)

\* scene identifiers given as --granule
Granules ==
    { "S1A_IW_GRDH_1SDV_20190704T135158_20190704T135223_027968_032877_1C4D",
      "S1A_IW_GRDH_1SDV_20",
      "S1B_EW" }

\* what follows --layover on the command line; <<>> when the option is absent
LayoverArgs == { <<>>, <<"">>, <<"True">>, <<"False">> }

\* entries a data directory may hold
BandFiles ==
    { "Gamma0_VV.img", "Gamma0_VH.img", "Gamma0_VV.hdr", "Sigma0_VV.img" }

\* the listings os.listdir may return
BandSets == { S \in SUBSET BandFiles : Cardinality(S) <= MaxFiles }

\* subprocess.call's return value: the exit status, or -signal
ReturnCodes == (0 .. MaxStatus) \cup { -9 }

\* the status the operating system reports for exit(n)
ExitStatus(n) == n % 256

Link(rel, href) == [rel |-> rel, href |-> href]

\* the feed.entry lists CMR may answer with: each entry is its links
CmrEntries ==
    { <<>>,
      << <<>> >>,
      << <<Link("1.1/browse#", "https://d/b.jpg")>> >>,
      << <<Link("1.1/browse#", "https://d/b.jpg"),
           Link("1.1/data#",   "https://d/S1A.zip")>> >>,
      << <<Link("1.1/browse#", "https://d/b.jpg")>>,
         <<Link("1.1/data#",   "https://d/S1A.zip")>> >> }

----------------------------------------------------------------------------
(* The working directory *)

\* A path holds a file or a directory. by: the line of the statement whose
\* command wrote it; band: the band file a raster was converted from;
\* ovr: overviews have been built into it.
File(by) ==
    [kind |-> "file", entries |-> {}, by |-> by, band |-> "", ovr |-> FALSE]
Dir(entries, by) ==
    [kind |-> "dir", entries |-> entries, by |-> by, band |-> "", ovr |-> FALSE]
Raster(by, band, ovr) ==
    [kind |-> "file", entries |-> {}, by |-> by, band |-> band, ovr |-> ovr]

Exists(f, p) == p \in DOMAIN f
IsFile(f, p) == Exists(f, p) /\ f[p].kind = "file"
IsDir(f, p)  == Exists(f, p) /\ f[p].kind = "dir"

Remove(f, p) == [q \in DOMAIN f \ {p} |-> f[q]]
Put(f, p, v) == (p :> v) @@ f

\* an entry of trace: an external command (ev = "call") with its return
\* code once it has returned, a deletion (ev = "unlink", "rmtree"), or a
\* directory listing (ev = "listdir") with what it returned
Call(line, cmdline) ==
    [ev |-> "call", line |-> line, cmdline |-> cmdline, path |-> "",
     entries |-> {}, rc |-> 0, done |-> FALSE]
Deletion(kind, path) ==
    [ev |-> kind, line |-> 0, cmdline |-> <<>>, path |-> path,
     entries |-> {}, rc |-> 0, done |-> TRUE]
Listing(line, path, entries) ==
    [ev |-> "listdir", line |-> line, cmdline |-> <<>>, path |-> path,
     entries |-> entries, rc |-> 0, done |-> TRUE]

\* os.unlink(p): p must be a file, else OSError
Unlink(f, p) ==
    IF IsFile(f, p)
    THEN [ok |-> TRUE, fs |-> Remove(f, p), ev |-> <<Deletion("unlink", p)>>]
    ELSE [ok |-> FALSE, fs |-> f, ev |-> <<>>]

\* shutil.rmtree(d): d must be a directory, else OSError
Rmtree(f, d) ==
    IF IsDir(f, d)
    THEN [ok |-> TRUE, fs |-> Remove(f, d), ev |-> <<Deletion("rmtree", d)>>]
    ELSE [ok |-> FALSE, fs |-> f, ev |-> <<>>]

\* two deletions one after the other; the second is not reached when the
\* first raises
ThenRmtree(r, d) ==
    IF ~r.ok THEN r
    ELSE LET q == Rmtree(r.fs, d)
         IN  [ok |-> q.ok, fs |-> q.fs, ev |-> r.ev \o q.ev]

\* Cleanup as it would be without the removal of the data directory
CleanupUnlinkOnly(f, input_file) == Unlink(f, input_file)

\* cleanup(input_file) of the new script
Cleanup(f, input_file) ==
    IF EndsWith(input_file, ".dim")
    THEN ThenRmtree(Unlink(f, input_file), Replace(input_file, ".dim", ".data"))
    ELSE Unlink(f, input_file)

\* delete_dim_files(name) of the old script
DeleteDimFiles(f, name) ==
    ThenRmtree(Unlink(f, name \o ".dim"), name \o ".data")

NoDeletion(f) == [ok |-> TRUE, fs |-> f, ev |-> <<>>]

----------------------------------------------------------------------------
(* The statements of __main__ after the download *)

\* local_file = gpt(input_file, cleanup_flag, command, *args) of the new
\* script: src and dst name the variables read and assigned
GptStmt(line, src, cleanup_flag, command, gargs, dst) ==
    [op |-> "gpt", style |-> "new", line |-> line, src |-> src, lit |-> "",
     del |-> IF cleanup_flag THEN "cleanup" ELSE "none", delarg |-> "",
     command |-> command, target |-> command, extra |-> gargs, dst |-> dst,
     extension |-> "", create_xml |-> FALSE]

\* ExportStmt as it would be without the cleanup(local_file) that ends
\* process_img_files
ExportStmtNoCleanup(line, src, extension, create_xml) ==
    [op |-> "export", style |-> "new", line |-> line, src |-> src, lit |-> "",
     del |-> "none", delarg |-> "",
     command |-> "", target |-> "", extra |-> <<>>, dst |-> "",
     extension |-> extension, create_xml |-> create_xml]

\* process_img_files(local_file, extension, create_xml) of the new script
ExportStmt(line, src, extension, create_xml) ==
    [op |-> "export", style |-> "new", line |-> line, src |-> src, lit |-> "",
     del |-> "cleanup", delarg |-> "",
     command |-> "", target |-> "", extra |-> <<>>, dst |-> "",
     extension |-> extension, create_xml |-> create_xml]

\* system_call(["gpt", command, ...]) of the old script followed by its
\* deletion statement; the source is the variable src or the literal lit
OldGptStmt(line, src, lit, command, gargs, target, del, delarg) ==
    [op |-> "gpt", style |-> "old", line |-> line, src |-> src, lit |-> lit,
     del |-> del, delarg |-> delarg,
     command |-> command, target |-> target, extra |-> gargs, dst |-> "",
     extension |-> "", create_xml |-> FALSE]

\* the export loop of the old script over TC.data, and delete_dim_files("TC")
OldExportStmt(line, lit, delarg) ==
    [op |-> "export", style |-> "old", line |-> line, src |-> "", lit |-> lit,
     del |-> "delete_dim_files", delarg |-> delarg,
     command |-> "", target |-> "", extra |-> <<>>, dst |-> "",
     extension |-> "RTC.tif", create_xml |-> FALSE]

ApplyOrbitFile ==
    GptStmt(159, "local_file", TRUE, "Apply-Orbit-File", <<>>, "local_file")
\* Calibration as it would be with its cleanup flag False
CalibrationKeepingInput ==
    GptStmt(160, "local_file", FALSE, "Calibration",
            <<"-PoutputBetaBand=true", "-PoutputSigmaBand=false">>,
            "local_file")
Calibration ==
    GptStmt(160, "local_file", TRUE, "Calibration",
            <<"-PoutputBetaBand=true", "-PoutputSigmaBand=false">>,
            "local_file")
SpeckleFilter ==
    GptStmt(161, "local_file", TRUE, "Speckle-Filter", <<>>, "local_file")
\* Multilook as it would be with cleanup_flag False
MultilookKeepingInput ==
    GptStmt(162, "local_file", FALSE, "Multilook",
            <<"-PnRgLooks=3", "-PnAzLooks=3">>, "local_file")
Multilook ==
    GptStmt(162, "local_file", TRUE, "Multilook",
            <<"-PnRgLooks=3", "-PnAzLooks=3">>, "local_file")
TerrainFlattening ==
    GptStmt(163, "local_file", TRUE, "Terrain-Flattening",
            <<"-PreGridMethod=False">>, "terrain_flattening_file")
\* SarSimulation as it would be with cleanup_flag True, like its neighbours
SarSimulationCleaning ==
    GptStmt(165, "terrain_flattening_file", TRUE, "SAR-Simulation",
            <<"-PdemName=SRTM 1Sec HGT", "-PsaveLayoverShadowMask=true">>,
            "local_file")
SarSimulation ==
    GptStmt(165, "terrain_flattening_file", FALSE, "SAR-Simulation",
            <<"-PdemName=SRTM 1Sec HGT", "-PsaveLayoverShadowMask=true">>,
            "local_file")
LayoverTerrainCorrection ==
    GptStmt(166, "local_file", TRUE, "Terrain-Correction",
            <<"-PimgResamplingMethod=NEAREST_NEIGHBOUR",
              "-PpixelSpacingInMeter=30.0",
              "-PsourceBands=layover_shadow_mask",
              "-PdemName=SRTM 1Sec HGT">>, "local_file")
\* LayoverExport as it would be with the main export's suffix copied
LayoverExportAsRtc == ExportStmt(167, "local_file", "RTC.tif", FALSE)
\* LayoverExport as it would be without the cleanup(local_file) that ends it
LayoverExportKeepingSource ==
    ExportStmtNoCleanup(167, "local_file", "LS.tif", FALSE)
LayoverExport == ExportStmt(167, "local_file", "LS.tif", FALSE)
\* TerrainCorrection as it would be if it read local_file, like the stages
\* of the chain
TerrainCorrectionOnLocalFile ==
    GptStmt(169, "local_file", TRUE, "Terrain-Correction",
            <<"-PpixelSpacingInMeter=30.0", "-PdemName=SRTM 1Sec HGT">>,
            "local_file")
TerrainCorrection ==
    GptStmt(169, "terrain_flattening_file", TRUE, "Terrain-Correction",
            <<"-PpixelSpacingInMeter=30.0", "-PdemName=SRTM 1Sec HGT">>,
            "local_file")
RtcExport == ExportStmt(172, "local_file", "RTC.tif", TRUE)

\* MainNew as it would be without the test of args.layover
MainNewUnconditional(a) ==
    <<ApplyOrbitFile, Calibration, SpeckleFilter, Multilook, TerrainFlattening,
      SarSimulation, LayoverTerrainCorrection, LayoverExport,
      TerrainCorrection, RtcExport>>

\* src/src/rtc.py, lines 159-172; a is args
MainNew(a) ==
    <<ApplyOrbitFile, Calibration, SpeckleFilter, Multilook, TerrainFlattening>>
    \o (IF Truthy(a.layover)
        THEN <<SarSimulation, LayoverTerrainCorrection, LayoverExport>>
        ELSE <<>>)
    \o <<TerrainCorrection, RtcExport>>

OldApplyOrbitFile ==
    OldGptStmt(93, "local_file", "", "Apply-Orbit-File", <<>>, "Orb",
               "unlink", "")
OldCalibration ==
    OldGptStmt(97, "", "Orb.dim", "Calibration",
               <<"-PoutputBetaBand=true", "-PoutputSigmaBand=false">>, "Cal",
               "delete_dim_files", "Orb")
OldSpeckleFilter ==
    OldGptStmt(101, "", "Cal.dim", "Speckle-Filter", <<>>, "Spk",
               "delete_dim_files", "Cal")
OldTerrainFlattening ==
    OldGptStmt(105, "", "Spk.dim", "Terrain-Flattening",
               <<"-PdemName=SRTM 1Sec HGT", "-PreGridMethod=False">>, "TF",
               "delete_dim_files", "Spk")
OldTerrainCorrection ==
    OldGptStmt(109, "", "TF.dim", "Terrain-Correction",
               <<"-PpixelSpacingInMeter=30.0", "-PmapProjection=EPSG:32613",
                 "-PdemName=SRTM 1Sec HGT">>, "TC",
               "delete_dim_files", "TF")
OldExport == OldExportStmt(113, "TC.data", "TC")

\* src/rtc.py, lines 92-123
MainOld ==
    <<OldApplyOrbitFile, OldCalibration, OldSpeckleFilter,
      OldTerrainFlattening, OldTerrainCorrection, OldExport>>

Main(s, a) == IF s = "new" THEN MainNew(a) ELSE MainOld

\* the path a statement reads, under the variables' values e
InputFile(st, e) == IF st.src # "" THEN e[st.src] ELSE st.lit

\* the command line of a gpt statement
GptCommand(st, e) ==
    IF st.style = "new"
    THEN <<"gpt", st.command, "-Ssource=" \o InputFile(st, e), "-t",
           st.command>> \o st.extra
    ELSE <<"gpt", st.command>> \o st.extra
         \o <<"-Ssource=" \o InputFile(st, e), "-t", st.target>>

\* Delete as it would be if gpt() cleaned up whatever cleanup_flag says
DeleteIgnoringFlag(st, f, e) ==
    CASE st.del \in {"none", "cleanup"} -> Cleanup(f, InputFile(st, e))
      [] st.del = "unlink"              -> Unlink(f, InputFile(st, e))
      [] st.del = "delete_dim_files"    -> DeleteDimFiles(f, st.delarg)

\* the deletion a statement ends with
Delete(st, f, e) ==
    CASE st.del = "none"             -> NoDeletion(f)
      [] st.del = "cleanup"          -> Cleanup(f, InputFile(st, e))
      [] st.del = "unlink"           -> Unlink(f, InputFile(st, e))
      [] st.del = "delete_dim_files" -> DeleteDimFiles(f, st.delarg)

\* SystemCallExits as it would be with the test "return_code == 1"
SystemCallExitsOnOne(return_code) == return_code = 1

\* system_call: a return code that is true in Python ends the run
SystemCallExits(return_code) == return_code # 0

----------------------------------------------------------------------------
(* Functions of the scripts *)

\* get_args(): --layover has type=bool, so its value is bool() of the text
GetArgs(v) ==
    [granule |-> v.granule,
     layover |-> IF v.layover = <<>> THEN <<>> ELSE <<PyBool(v.layover[1])>>]

\* GetDownloadUrl as it would be if it returned the "" it initialises
\* download_url with
GetDownloadUrlEmpty(entries) ==
    IF entries # <<>>
    THEN LET links == entries[1]
             hits  == { i \in 1 .. Len(links) : Contains(links[i].rel, "data") }
         IN  IF hits # {}
             THEN links[CHOOSE i \in hits : \A j \in hits : i <= j].href
             ELSE ""
    ELSE ""

\* get_download_url: the href of the first link of the first entry whose rel
\* contains "data", None when there is none
GetDownloadUrl(entries) ==
    IF entries # <<>>
    THEN LET links == entries[1]
             hits  == { i \in 1 .. Len(links) : Contains(links[i].rel, "data") }
         IN  IF hits # {}
             THEN links[CHOOSE i \in hits : \A j \in hits : i <= j].href
             ELSE None
    ELSE None

\* file_name[-6:-4]
Polarization(file_name) == PySlice(file_name, -6, -4)

\* AcquisitionYear as it would be with the slice one character early
AcquisitionYearEarly(input_granule) == PySlice(input_granule, 16, 20)

\* input_granule[17:21]
AcquisitionYear(input_granule) == PySlice(input_granule, 17, 21)

\* the directory an export statement lists
DataDir(st, e) ==
    IF st.style = "new"
    THEN Replace(InputFile(st, e), ".dim", ".data")
    ELSE st.lit

\* the product's path in the output directory
TifFileName(st, granule, polarization) ==
    IF st.style = "new"
    THEN "/output/" \o granule \o "_" \o polarization \o "_" \o st.extension
    ELSE "/output/" \o (granule \o "_" \o polarization \o "_RTC.tif")

TempFile == "temp.tif"

\* a product: the band it was converted from, the statement that wrote
\* that band's artifact, and whether the last conversion finished
Tif(raster, complete) ==
    [kind |-> "tif", by |-> raster.by, band |-> raster.band,
     ovr |-> raster.ovr, complete |-> complete, polarization |-> "",
     input_granule |-> "", acquisition_year |-> ""]

\* a sidecar: the template's substitution values (the timestamp is left out)
Xml(input_granule, polarization) ==
    [kind |-> "xml", by |-> 0, band |-> "", ovr |-> FALSE, complete |-> TRUE,
     polarization |-> polarization, input_granule |-> input_granule,
     acquisition_year |-> AcquisitionYear(input_granule)]

\* what an external tool needs of its input to be able to succeed
InputReadable(f, p) ==
    /\ IsFile(f, p)
    /\ EndsWith(p, ".dim") => IsDir(f, Replace(p, ".dim", ".data"))

----------------------------------------------------------------------------
(* The state machine *)

EmptyFs == [p \in {} |-> File(0)]

Scripts == { "new", "old" }

\* The state when __main__ starts. The old script's parser has no --layover
\* option, so its command line carries none.

Init ==
    /\ script \in Scripts
    /\ argv \in [granule : Granules, layover : LayoverArgs]
    /\ script = "old" => argv.layover = <<>>
    /\ args = GetArgs(argv)
    /\ pc = "get_download_url"
    /\ ip = 1
    /\ ph = "idle"
    /\ feed = <<>>
    /\ download_url = None
    /\ env = [local_file |-> None, terrain_flattening_file |-> None]
    /\ fs = EmptyFs
    /\ output = EmptyFs
    /\ netrc = FALSE
    /\ todo = {}
    /\ cur = ""
    /\ trace = <<>>
    /\ exc = ""
    /\ exitCode = 0

Prog == Main(script, args)
Stmt == Prog[ip]
AtStmt(op) == pc = "chain" /\ ip <= Len(Prog) /\ Stmt.op = op

\* exit(code)
Exit(code) ==
    /\ pc' = "exited"
    /\ exitCode' = code
    /\ exc' = ""

\* an uncaught exception: traceback, exit status 1
Raise(e) ==
    /\ pc' = "exited"
    /\ exitCode' = 1
    /\ exc' = e

\* the last entry of trace gets the command's return code
Returned(t, rc) == [t EXCEPT ![Len(t)].rc = rc, ![Len(t)].done = TRUE]

\* download_url = get_download_url(args.granule); exit(1) when it is None
Resolve ==
    /\ pc = "get_download_url"
    /\ \/ /\ Raise("HTTPError")
          /\ UNCHANGED <<feed, download_url>>
       \/ \E entries \in CmrEntries :
            /\ feed' = entries
            /\ download_url' = GetDownloadUrl(entries)
            /\ IF download_url' = None
               THEN Exit(1)
               ELSE /\ pc' = "write_netrc_file"
                    /\ UNCHANGED <<exitCode, exc>>
    /\ UNCHANGED <<script, argv, args, ip, ph, env, fs, output, netrc, todo,
                   cur, trace>>

\* write_netrc_file(args.username, args.password)
WriteNetrcFile ==
    /\ pc = "write_netrc_file"
    /\ netrc' = TRUE
    /\ pc' = "download_file"
    /\ UNCHANGED <<script, argv, args, ip, ph, feed, download_url, env, fs, output,
                   todo, cur, trace, exc, exitCode>>

DownloadLine == IF script = "new" THEN 157 ELSE 90

\* local_file = download_file(download_url)
DownloadFile ==
    /\ pc = "download_file"
    /\ LET local_filename == LastSegment(download_url)
       IN  \/ /\ fs' = Put(fs, local_filename, File(DownloadLine))
              /\ env' = [env EXCEPT !.local_file = local_filename]
              /\ pc' = "chain"
              /\ UNCHANGED <<exitCode, exc>>
           \/ /\ \E partial \in BOOLEAN :
                    fs' = IF partial
                          THEN Put(fs, local_filename, File(DownloadLine))
                          ELSE fs
              /\ Raise("HTTPError")
              /\ UNCHANGED env
    /\ UNCHANGED <<script, argv, args, ip, ph, feed, download_url, output, netrc,
                   todo, cur, trace>>

\* gpt(): the command line is built and the toolbox is started; the call
\* blocks until it exits
GptStart ==
    /\ AtStmt("gpt")
    /\ ph = "idle"
    /\ trace' = Append(trace, Call(Stmt.line, GptCommand(Stmt, env)))
    /\ ph' = "running"
    /\ UNCHANGED <<script, argv, args, pc, ip, feed, download_url, env, fs, output,
                   netrc, todo, cur, exc, exitCode>>

\* what the toolbox leaves in the working directory: the whole artifact
\* when it exits with 0, any part of it otherwise
GptWrites(f, st, return_code, bands, left) ==
    LET dim  == st.target \o ".dim"
        data == st.target \o ".data"
        f1   == IF return_code = 0 \/ "dim" \in left
                THEN Put(f, dim, File(st.line)) ELSE f
    IN  IF return_code = 0 THEN Put(f1, data, Dir(bands, st.line))
        ELSE IF "data" \in left THEN Put(f1, data, Dir({}, st.line))
        ELSE f1

\* the value gpt() returns
GptResult(st) == st.target \o ".dim"

\* gpt(): the toolbox has exited; system_call ends the run on a non-zero
\* return code, else the input is cleaned up and the output's name returned
GptReturn ==
    /\ AtStmt("gpt")
    /\ ph = "running"
    /\ \E return_code \in ReturnCodes, left \in SUBSET {"dim", "data"} :
       \E bands \in IF return_code = 0 THEN BandSets ELSE {{}} :
        /\ return_code = 0 => left = {} /\ InputReadable(fs, InputFile(Stmt, env))
        /\ LET written == GptWrites(fs, Stmt, return_code, bands, left)
               d       == Delete(Stmt, written, env)
           IN  IF SystemCallExits(return_code)
               THEN /\ fs' = written
                    /\ trace' = Returned(trace, return_code)
                    /\ Exit(ExitStatus(return_code))
                    /\ UNCHANGED <<ip, ph, env>>
               ELSE /\ fs' = d.fs
                    /\ trace' = Returned(trace, return_code) \o d.ev
                    /\ IF d.ok
                       THEN /\ env' = IF Stmt.dst # ""
                                      THEN [env EXCEPT ![Stmt.dst] = GptResult(Stmt)]
                                      ELSE env
                            /\ ip' = ip + 1
                            /\ ph' = "idle"
                            /\ UNCHANGED <<pc, exitCode, exc>>
                       ELSE /\ Raise("OSError")
                            /\ UNCHANGED <<ip, ph, env>>
    /\ UNCHANGED <<script, argv, args, feed, download_url, output, netrc, todo, cur>>

\* process_img_files: os.listdir(data_dir)
ListDir ==
    /\ AtStmt("export")
    /\ ph = "idle"
    /\ IF IsDir(fs, DataDir(Stmt, env))
       THEN /\ todo' = fs[DataDir(Stmt, env)].entries
            /\ trace' = Append(trace, Listing(Stmt.line, DataDir(Stmt, env),
                                              todo'))
            /\ ph' = "loop"
            /\ UNCHANGED <<pc, exitCode, exc>>
       ELSE /\ Raise("OSError")
            /\ UNCHANGED <<todo, ph, trace>>
    /\ UNCHANGED <<script, argv, args, ip, feed, download_url, env, fs,
                   output, netrc, cur>>

\* the loop takes the next entry of the listing, in whatever order
\* os.listdir gave; an entry that does not end in .img is passed over
NextEntry ==
    /\ AtStmt("export")
    /\ ph = "loop"
    /\ \E file_name \in todo :
        /\ todo' = todo \ {file_name}
        /\ IF EndsWith(file_name, ".img")
           THEN cur' = file_name /\ ph' = "translate"
           ELSE UNCHANGED <<cur, ph>>
    /\ UNCHANGED <<script, argv, args, pc, ip, feed, download_url, env, fs, output,
                   netrc, trace, exc, exitCode>>

BandPath == DataDir(Stmt, env) \o "/" \o cur
OutputFile == TifFileName(Stmt, args.granule, Polarization(cur))
BandReadable ==
    IsDir(fs, DataDir(Stmt, env)) /\ cur \in fs[DataDir(Stmt, env)].entries

\* gdal_translate -of GTiff -a_nodata 0 input_file temp.tif
GdalTranslate ==
    /\ AtStmt("export")
    /\ ph = "translate"
    /\ \E return_code \in ReturnCodes, partial \in BOOLEAN :
        /\ return_code = 0 => ~partial /\ BandReadable
        /\ fs' = IF return_code = 0 \/ partial
                 THEN Put(fs, TempFile,
                          Raster(IF BandReadable
                                 THEN fs[DataDir(Stmt, env)].by ELSE 0,
                                 cur, FALSE))
                 ELSE fs
        /\ trace' = Returned(Append(trace,
                        Call(Stmt.line, <<"gdal_translate", "-of", "GTiff",
                             "-a_nodata", "0", BandPath, TempFile>>)),
                        return_code)
        /\ IF SystemCallExits(return_code)
           THEN Exit(ExitStatus(return_code)) /\ UNCHANGED ph
           ELSE ph' = "addo" /\ UNCHANGED <<pc, exitCode, exc>>
    /\ UNCHANGED <<script, argv, args, ip, feed, download_url, env, output, netrc,
                   todo, cur>>

\* gdaladdo -r average temp.tif 2 4 8 16
Gdaladdo ==
    /\ AtStmt("export")
    /\ ph = "addo"
    /\ \E return_code \in ReturnCodes :
        /\ return_code = 0 => IsFile(fs, TempFile)
        /\ fs' = IF return_code = 0
                 THEN [fs EXCEPT ![TempFile].ovr = TRUE]
                 ELSE fs
        /\ trace' = Returned(Append(trace,
                        Call(Stmt.line, <<"gdaladdo", "-r", "average",
                             TempFile, "2", "4", "8", "16">>)),
                        return_code)
        /\ IF SystemCallExits(return_code)
           THEN Exit(ExitStatus(return_code)) /\ UNCHANGED ph
           ELSE ph' = "retile" /\ UNCHANGED <<pc, exitCode, exc>>
    /\ UNCHANGED <<script, argv, args, ip, feed, download_url, env, output, netrc,
                   todo, cur>>

\* RemoveTemp as it would be if the conversion left temp.tif in place
RemoveTempForgotten(f) == NoDeletion(f)

\* the deletion of temp.tif that ends a band's conversion:
\* cleanup(temp_file) in the new script, os.unlink in the old one
RemoveTemp(f) == IF Stmt.style = "new" THEN Cleanup(f, TempFile)
                 ELSE Unlink(f, TempFile)

\* gdal_translate -co TILED=YES -co COMPRESS=DEFLATE
\*   -co COPY_SRC_OVERVIEWS=YES temp.tif output_file, then the removal of
\* temp.tif
GdalRetile ==
    /\ AtStmt("export")
    /\ ph = "retile"
    /\ \E return_code \in ReturnCodes, partial \in BOOLEAN :
        /\ return_code = 0 => ~partial /\ IsFile(fs, TempFile)
        /\ output' = IF IsFile(fs, TempFile) /\ (return_code = 0 \/ partial)
                     THEN Put(output, OutputFile,
                              Tif(fs[TempFile], return_code = 0))
                     ELSE output
        /\ LET called == Returned(Append(trace,
                            Call(Stmt.line, <<"gdal_translate", "-co",
                                 "TILED=YES", "-co", "COMPRESS=DEFLATE", "-co",
                                 "COPY_SRC_OVERVIEWS=YES", TempFile,
                                 OutputFile>>)),
                            return_code)
               d      == RemoveTemp(fs)
           IN  IF SystemCallExits(return_code)
               THEN /\ Exit(ExitStatus(return_code))
                    /\ trace' = called
                    /\ UNCHANGED <<ph, fs, cur>>
               ELSE /\ fs' = d.fs
                    /\ trace' = called \o d.ev
                    /\ IF d.ok
                       THEN /\ ph' = IF Stmt.create_xml THEN "xml" ELSE "loop"
                            /\ cur' = IF Stmt.create_xml THEN cur ELSE ""
                            /\ UNCHANGED <<pc, exitCode, exc>>
                       ELSE Raise("OSError") /\ UNCHANGED <<ph, cur>>
    /\ UNCHANGED <<script, argv, args, ip, feed, download_url, env, netrc, todo>>

\* create_arcgis_xml(args.granule, f"{tif_file_name}.xml", polarization)
CreateArcgisXml ==
    /\ AtStmt("export")
    /\ ph = "xml"
    /\ output' = Put(output, OutputFile \o ".xml",
                     Xml(args.granule, Polarization(cur)))
    /\ ph' = "loop"
    /\ cur' = ""
    /\ UNCHANGED <<script, argv, args, pc, ip, feed, download_url, env, fs, netrc,
                   todo, trace, exc, exitCode>>

\* ExportCleanup as it would be with cleanup(local_file) and the return
\* indented into the loop: it no longer waits for the listing to be exhausted
ExportCleanupInLoop ==
    /\ AtStmt("export")
    /\ ph = "loop"
    /\ LET d == Delete(Stmt, fs, env)
       IN  /\ fs' = d.fs
           /\ trace' = trace \o d.ev
           /\ IF d.ok
              THEN /\ ip' = ip + 1
                   /\ ph' = "idle"
                   /\ todo' = {}
                   /\ UNCHANGED <<pc, exitCode, exc>>
              ELSE Raise("OSError") /\ UNCHANGED <<ip, ph, todo>>
    /\ UNCHANGED <<script, argv, args, feed, download_url, env, output, netrc,
                   cur>>

\* the listing is exhausted: the source artifact is deleted and
\* process_img_files returns
ExportCleanup ==
    /\ AtStmt("export")
    /\ ph = "loop"
    /\ todo = {}
    /\ LET d == Delete(Stmt, fs, env)
       IN  /\ fs' = d.fs
           /\ trace' = trace \o d.ev
           /\ IF d.ok
              THEN /\ ip' = ip + 1
                   /\ ph' = "idle"
                   /\ UNCHANGED <<pc, exitCode, exc>>
              ELSE Raise("OSError") /\ UNCHANGED <<ip, ph>>
    /\ UNCHANGED <<script, argv, args, feed, download_url, env, output, netrc,
                   todo, cur>>

\* the script runs off its last statement: exit status 0
Finish ==
    /\ pc = "chain"
    /\ ip > Len(Prog)
    /\ Exit(0)
    /\ UNCHANGED <<script, argv, args, ip, ph, feed, download_url, env, fs, output,
                   netrc, todo, cur, trace>>

Next ==
    \/ Resolve
    \/ WriteNetrcFile
    \/ DownloadFile
    \/ GptStart
    \/ GptReturn
    \/ ListDir
    \/ NextEntry
    \/ GdalTranslate
    \/ Gdaladdo
    \/ GdalRetile
    \/ CreateArcgisXml
    \/ ExportCleanup
    \/ Finish

Spec == Init /\ [][Next]_vars

----------------------------------------------------------------------------
(* Vocabulary of the properties *)

Succeeded == pc = "exited" /\ exitCode = 0 /\ exc = ""

IsGptCall(e) == e.ev = "call" /\ e.cmdline[1] = "gpt"
IsDeletion(e) == e.ev \in {"unlink", "rmtree"}

\* the stage a gpt command runs and the artifact it reads
StageOf(e) == e.cmdline[2]
Reads(e, p) == \E k \in DOMAIN e.cmdline : e.cmdline[k] = "-Ssource=" \o p

\* the indexes of trace at which stage was invoked
Invocations(stage) ==
    { i \in DOMAIN trace : IsGptCall(trace[i]) /\ StageOf(trace[i]) = stage }

\* the Terrain-Flattening artifact's name in the script that runs
TfName == IF script = "new" THEN "Terrain-Flattening" ELSE "TF"
TfPaths == { TfName \o ".dim", TfName \o ".data" }

\* stage, reading the Terrain-Flattening artifact, returned 0 before step i
CompletedOnTfBefore(stage, i) ==
    \E j \in 1 .. (i - 1) :
        /\ IsGptCall(trace[j])
        /\ StageOf(trace[j]) = stage
        /\ Reads(trace[j], TfName \o ".dim")
        /\ trace[j].done
        /\ trace[j].rc = 0

Last(t) == t[Len(t)]

----------------------------------------------------------------------------
(* C1: when a gpt stage command, of the chain or of either branch, exits    *)
(* with a status N # 0, the run ends with exit status N and the failing     *)
(* command is the last thing the run did: no stage, export step or          *)
(* deletion follows it.                                                     *)
C1_FatalErrorPropagation ==
    \A i \in DOMAIN trace :
        (IsGptCall(trace[i]) /\ trace[i].done /\ trace[i].rc > 0)
        => /\ i = Len(trace)
           /\ pc = "exited"
           /\ exitCode = trace[i].rc
           /\ exc = ""

C1_Witness ==
    /\ pc = "exited"
    /\ trace # <<>>
    /\ IsGptCall(Last(trace))
    /\ StageOf(Last(trace)) = "Terrain-Correction"
    /\ Last(trace).line = 166
    /\ Last(trace).rc = 2
    /\ exitCode = 2

(* C2: after a run in which every external command succeeded, with the      *)
(* layover flag set or unset, the working directory holds no intermediate   *)
(* artifact: not the raw download, no stage's .dim file or .data directory, *)
(* not temp.tif.                                                            *)
C2_CleanupAfterSuccess == Succeeded => DOMAIN fs = {}

C2_Witness ==
    /\ Succeeded
    /\ Truthy(args.layover)
    /\ \E p \in DOMAIN output : EndsWith(p, "_LS.tif")
    /\ \E p \in DOMAIN output : EndsWith(p, "_RTC.tif")

(* C3: the Terrain-Flattening artifact is deleted only after the main       *)
(* Terrain-Correction has completed and, when the layover flag is set, only *)
(* after SAR-Simulation has completed too.                                  *)
C3_DeferredDeletion ==
    \A i \in DOMAIN trace :
        (IsDeletion(trace[i]) /\ trace[i].path \in TfPaths)
        => /\ CompletedOnTfBefore("Terrain-Correction", i)
           /\ Truthy(args.layover) => CompletedOnTfBefore("SAR-Simulation", i)

C3_Witness ==
    /\ Truthy(args.layover)
    /\ \E i \in DOMAIN trace :
        IsDeletion(trace[i]) /\ trace[i].path = "Terrain-Flattening.data"

(* C4: when the layover flag is unset, SAR-Simulation is never invoked, no  *)
(* product ending in LS.tif is written, and Terrain-Correction is invoked   *)
(* once: never twice, and exactly once in a run that completes.             *)
C4_NoLayoverWhenUnset ==
    ~Truthy(args.layover)
    => /\ Invocations("SAR-Simulation") = {}
       /\ \A p \in DOMAIN output : ~Contains(p, "LS.tif")
       /\ Cardinality(Invocations("Terrain-Correction")) <= 1
       /\ Succeeded => Cardinality(Invocations("Terrain-Correction")) = 1

C4_Witness ==
    /\ script = "new"
    /\ argv.layover = <<"">>
    /\ Succeeded
    /\ output # EmptyFs

(* C5: after a successful run the output directory holds one RTC product    *)
(* per .img file listed in the main Terrain-Correction data directory,      *)
(* named <granule>_<bandCode>_RTC.tif with bandCode the last two characters *)
(* before the extension, and as many RTC products as there are band files.  *)
ImgFiles(entries) == { f \in entries : EndsWith(f, ".img") }
BandCode(f) == SubSeq(f, Len(f) - 5, Len(f) - 4)
ListingAt(lines) ==
    LET i == CHOOSE j \in DOMAIN trace :
                 trace[j].ev = "listdir" /\ trace[j].line \in lines
    IN  trace[i].entries
MainListing == ListingAt({172, 113})
LayoverListing == ListingAt({167})
Products(suffix) == { p \in DOMAIN output : EndsWith(p, suffix) }

C5_OneProductPerBandFile ==
    Succeeded =>
        /\ Products("_RTC.tif") =
               { "/output/" \o args.granule \o "_" \o BandCode(f) \o "_RTC.tif" :
                   f \in ImgFiles(MainListing) }
        /\ Cardinality(Products("_RTC.tif")) =
               Cardinality(ImgFiles(MainListing))

(* C6: when the layover flag is set and the run succeeds, there is one      *)
(* LS.tif product per band file of the layover branch's Terrain-Correction  *)
(* artifact, no sidecar belongs to an LS product, and every RTC product has *)
(* a sidecar, the only sidecars there are.                                  *)
C6_LayoverProductsAndSidecars ==
    (Succeeded /\ Truthy(args.layover)) =>
        /\ Cardinality(Products("_LS.tif")) =
               Cardinality(ImgFiles(LayoverListing))
        /\ Products("_LS.tif.xml") = {}
        /\ Products(".xml") = { p \o ".xml" : p \in Products("_RTC.tif") }

(* C7: what the main path does and yields does not depend on the layover    *)
(* branch: the main Terrain-Correction is invoked with one fixed command,   *)
(* on the Terrain-Flattening artifact as the Terrain-Flattening stage wrote *)
(* it, and the RTC products and sidecars of a successful run are determined *)
(* by the granule and the main Terrain-Correction's band files alone (a     *)
(* function of these, so two runs that differ in the flag agree on them).   *)
MainTcCommand ==
    <<"gpt", "Terrain-Correction", "-Ssource=Terrain-Flattening.dim", "-t",
      "Terrain-Correction", "-PpixelSpacingInMeter=30.0",
      "-PdemName=SRTM 1Sec HGT">>

RtcOutputs(granule, listing) ==
    UNION { { TifFileName(RtcExport, granule, Polarization(f)),
              TifFileName(RtcExport, granule, Polarization(f)) \o ".xml" } :
            f \in ImgFiles(listing) }

RtcContentOk(p, granule, listing) ==
    IF output[p].kind = "xml"
    THEN \E f \in ImgFiles(listing) :
            /\ p = TifFileName(RtcExport, granule, Polarization(f)) \o ".xml"
            /\ output[p] = Xml(granule, Polarization(f))
    ELSE /\ output[p].by = 169
         /\ output[p].band \in ImgFiles(listing)
         /\ p = TifFileName(RtcExport, granule, Polarization(output[p].band))
         /\ output[p].ovr
         /\ output[p].complete

C7_BranchIndependence ==
    script = "new" =>
        /\ \A i \in DOMAIN trace :
              (IsGptCall(trace[i]) /\ trace[i].line = 169)
              => trace[i].cmdline = MainTcCommand
        /\ (AtStmt("gpt") /\ Stmt.line = 169 /\ ph = "running")
           => /\ IsFile(fs, "Terrain-Flattening.dim")
              /\ IsDir(fs, "Terrain-Flattening.data")
              /\ fs["Terrain-Flattening.dim"].by = 163
              /\ fs["Terrain-Flattening.data"].by = 163
        /\ Succeeded
           => /\ { p \in DOMAIN output : Contains(p, "_RTC.tif") } =
                     RtcOutputs(args.granule, MainListing)
              /\ \A p \in DOMAIN output :
                     Contains(p, "_RTC.tif")
                     => RtcContentOk(p, args.granule, MainListing)

C7_Witness ==
    /\ Succeeded
    /\ Truthy(args.layover)
    /\ \E p \in Products("_LS.tif"), q \in Products("_RTC.tif") :
        /\ output[p].band = "Gamma0_VV.img"
        /\ output[p].by = 166
        /\ output[q].band = "Gamma0_VV.img"
        /\ output[q].by = 169

(* C8: when CMR's answer holds no download link for the granule, the run    *)
(* ends with exit status 1 having written no credential file, downloaded    *)
(* nothing, run no command and written nothing to the output directory.     *)
NoDataLink(entries) ==
    \/ entries = <<>>
    \/ \A k \in DOMAIN entries[1] : ~Contains(entries[1][k].rel, "data")

C8_ResolutionFailure ==
    (pc # "get_download_url" /\ NoDataLink(feed))
    => /\ pc = "exited"
       /\ exitCode = 1
       /\ ~netrc
       /\ fs = EmptyFs
       /\ trace = <<>>
       /\ output = EmptyFs

C8_Witness ==
    /\ pc = "exited"
    /\ exc = ""
    /\ feed # <<>>
    /\ feed[1] # <<>>
    /\ NoDataLink(feed)
    /\ download_url = None
    /\ exitCode = 1

(* C9: a step in which a stage's command returns: when it returned 0, the   *)
(* artifact named after the stage exists, and the input artifact is gone    *)
(* (its file, and its data directory if it has one) if the statement        *)
(* deletes its input, and is as it was if it does not; when it returned     *)
(* non-zero, the input artifact is as it was.                               *)
CompanionDir(p) == Replace(p, ".dim", ".data")
SamePath(f, g, p) == (Exists(f, p) <=> Exists(g, p)) /\ (Exists(f, p) => f[p] = g[p])

C9_StageCleanupPolicy ==
    [][ (AtStmt("gpt") /\ ph = "running")
        => LET st  == Stmt
               inp == InputFile(st, env)
               rc  == trace'[Len(trace)].rc
           IN  IF rc = 0
               THEN /\ IsFile(fs', st.target \o ".dim")
                    /\ IsDir(fs', st.target \o ".data")
                    /\ st.del # "none"
                       => ~Exists(fs', inp) /\ ~Exists(fs', CompanionDir(inp))
                    /\ st.del = "none"
                       => SamePath(fs, fs', inp)
                          /\ SamePath(fs, fs', CompanionDir(inp))
               ELSE /\ SamePath(fs, fs', inp)
                    /\ SamePath(fs, fs', CompanionDir(inp))
      ]_vars

C9_Witness ==
    /\ AtStmt("gpt")
    /\ Stmt.line = 166
    /\ ph = "idle"
    /\ IsFile(fs, "Terrain-Flattening.dim")
    /\ IsDir(fs, "Terrain-Flattening.data")
    /\ IsFile(fs, "SAR-Simulation.dim")
    /\ IsDir(fs, "SAR-Simulation.data")
    /\ ~Exists(fs, "Multilook.dim")

(* C10, as stated: in every terminal state of a run, whether the three      *)
(* conversion sub-steps succeeded or one of them failed, temp.tif does not  *)
(* exist.                                                                   *)
C10_TempRemovedRegardless == pc = "exited" => ~Exists(fs, TempFile)

(* C10, amended: temp.tif exists only between the first conversion          *)
(* sub-step of a band and the end of that band's conversion, or after a run *)
(* that a failing conversion sub-step ended; a run that ends otherwise      *)
(* leaves no temp.tif.                                                      *)
IsGdalCall(e) ==
    e.ev = "call" /\ e.cmdline[1] \in {"gdal_translate", "gdaladdo"}

C10_TempRemovedUnlessFailed ==
    Exists(fs, TempFile)
    => \/ AtStmt("export") /\ ph \in {"addo", "retile"}
       \/ /\ pc = "exited"
          /\ trace # <<>>
          /\ IsGdalCall(Last(trace))
          /\ Last(trace).rc # 0
          /\ exitCode = ExitStatus(Last(trace).rc)

C10_Witness ==
    /\ AtStmt("export")
    /\ ph = "loop"
    /\ todo # {}
    /\ \E p \in DOMAIN output : output[p].kind = "tif" /\ output[p].complete
    /\ IsGdalCall(trace[Len(trace) - 1])
    /\ Last(trace) = Deletion("unlink", TempFile)
    /\ ~Exists(fs, TempFile)

(* C11: the stages of the fixed chain are invoked in the order              *)
(* Apply-Orbit-File, Calibration, Speckle-Filter, Multilook,                *)
(* Terrain-Flattening (the old script has no Multilook), each at most once, *)
(* each on the output artifact of the stage before it (the raw download for *)
(* the first) and only after that stage returned 0, and each deletes its    *)
(* input as soon as it has returned 0.                                      *)
Chain ==
    IF script = "new"
    THEN <<"Apply-Orbit-File", "Calibration", "Speckle-Filter", "Multilook",
           "Terrain-Flattening">>
    ELSE <<"Apply-Orbit-File", "Calibration", "Speckle-Filter",
           "Terrain-Flattening">>

\* the output name a gpt command was given with -t
TargetOf(e) ==
    e.cmdline[(CHOOSE k \in DOMAIN e.cmdline : e.cmdline[k] = "-t") + 1]

\* the entries of trace from index i on start with the sequence evs
FollowedBy(i, evs) ==
    /\ Len(trace) >= i + Len(evs)
    /\ \A k \in DOMAIN evs : trace[i + k] = evs[k]

ChainStepOk(k, i) ==
    /\ Cardinality(Invocations(Chain[k])) = 1
    /\ IF k = 1
       THEN /\ Reads(trace[i], LastSegment(download_url))
            /\ (trace[i].done /\ trace[i].rc = 0)
               => /\ FollowedBy(i, <<Deletion("unlink",
                                              LastSegment(download_url))>>)
                  /\ ~Exists(fs, LastSegment(download_url))
       ELSE \E j \in 1 .. (i - 1) :
            /\ IsGptCall(trace[j])
            /\ StageOf(trace[j]) = Chain[k - 1]
            /\ trace[j].done
            /\ trace[j].rc = 0
            /\ Reads(trace[i], TargetOf(trace[j]) \o ".dim")
            /\ (trace[i].done /\ trace[i].rc = 0)
               => /\ FollowedBy(i,
                       <<Deletion("unlink", TargetOf(trace[j]) \o ".dim"),
                         Deletion("rmtree", TargetOf(trace[j]) \o ".data")>>)
                  /\ ~Exists(fs, TargetOf(trace[j]) \o ".dim")
                  /\ ~Exists(fs, TargetOf(trace[j]) \o ".data")

C11_FixedChainOrder ==
    \A k \in DOMAIN Chain : \A i \in Invocations(Chain[k]) : ChainStepOk(k, i)

C11_Witness ==
    /\ script = "new"
    /\ \E i \in Invocations("Terrain-Flattening") :
           trace[i].done /\ trace[i].rc = 0
    /\ Invocations("Multilook") # {}
    /\ IsFile(fs, "Terrain-Flattening.dim")

(* C12: a step in which a raster-conversion sub-step of a band's export     *)
(* returns N # 0 ends the run with exit status N; it deletes nothing (the   *)
(* source artifact and everything else in the working directory stay, and   *)
(* nothing deleted earlier comes back), it leaves the bands not yet visited *)
(* unexported, and the products already written for earlier bands stay as   *)
(* they are.                                                                *)
GdalFails ==
    /\ AtStmt("export")
    /\ ph \in {"translate", "addo", "retile"}
    /\ Len(trace') = Len(trace) + 1
    /\ IsGdalCall(Last(trace'))
    /\ Last(trace').rc > 0

C12_ExportFailure ==
    [][ GdalFails
        => /\ pc' = "exited"
           /\ exitCode' = Last(trace').rc
           /\ todo' = todo
           /\ IsFile(fs', Replace(DataDir(Stmt, env), ".data", ".dim"))
           /\ IsDir(fs', DataDir(Stmt, env))
           /\ \A p \in (DOMAIN fs \cup DOMAIN fs') \ {TempFile} :
                  SamePath(fs, fs', p)
           /\ \A p \in DOMAIN output :
                  output[p].band # cur => SamePath(output, output', p)
      ]_vars

(* C13: in every reachable state, for every artifact a stage writes, the    *)
(* data directory exists if and only if the primary file exists, unless the *)
(* stage writing it has just failed and ended the run (its output is then   *)
(* incomplete).                                                             *)
StageTargets == { Prog[k].target : k \in { j \in DOMAIN Prog : Prog[j].op = "gpt" } }

FailedWriting(target) ==
    /\ pc = "exited"
    /\ trace # <<>>
    /\ IsGptCall(Last(trace))
    /\ TargetOf(Last(trace)) = target
    /\ Last(trace).rc # 0

C13_ArtifactInvariant ==
    \A target \in StageTargets :
        \/ FailedWriting(target)
        \/ /\ IsFile(fs, target \o ".dim") <=> IsDir(fs, target \o ".data")
           /\ Exists(fs, target \o ".dim") <=> Exists(fs, target \o ".data")

C13_Witness ==
    /\ IsFile(fs, "Calibration.dim")
    /\ IsDir(fs, "Calibration.data")
    /\ ~Exists(fs, "Apply-Orbit-File.dim")
    /\ ~Exists(fs, "Apply-Orbit-File.data")
    /\ \E i \in DOMAIN trace :
           trace[i] = Deletion("rmtree", "Apply-Orbit-File.data")

(* C14: an export deletes its source artifact only after every .img file of *)
(* the listing has been converted, it does delete it (primary file and data *)
(* directory) once the export is over, also when the listing holds no .img  *)
(* file, and no conversion sub-step runs after the deletion.                *)
IsListing(e) == e.ev = "listdir"

\* j lies in the export that the listing at i began
InExport(i, j) ==
    i < j /\ \A k \in (i + 1) .. j : ~IsListing(trace[k])

\* the three sub-steps for band file f of directory d returned 0 between
\* the listing at i and step j
ConvertedBetween(i, j, d, f) ==
    \E k \in (i + 1) .. (j - 3) :
        /\ \A n \in k .. (k + 2) :
              IsGdalCall(trace[n]) /\ trace[n].done /\ trace[n].rc = 0
        /\ \E m \in DOMAIN trace[k].cmdline :
              trace[k].cmdline[m] = d \o "/" \o f
        /\ trace[k + 3] = Deletion("unlink", TempFile)

DeletesSource(i, j) ==
    /\ InExport(i, j)
    /\ IsDeletion(trace[j])
    /\ trace[j].path \in { trace[i].path, Replace(trace[i].path, ".data", ".dim") }

\* the run has gone on past the export that the listing at i began
ExportOver(i) ==
    \/ Succeeded
    \/ \E j \in (i + 1) .. Len(trace) : IsGptCall(trace[j])

C14_SourceDeletedAfterAllBands ==
    \A i \in DOMAIN trace :
        IsListing(trace[i])
        => /\ \A j \in DOMAIN trace :
                 DeletesSource(i, j)
                 => /\ \A f \in ImgFiles(trace[i].entries) :
                          ConvertedBetween(i, j, trace[i].path, f)
                    /\ \A n \in DOMAIN trace :
                          (InExport(i, n) /\ n > j) => ~IsGdalCall(trace[n])
           /\ ExportOver(i)
              => /\ \E j \in DOMAIN trace :
                       /\ DeletesSource(i, j)
                       /\ trace[j].ev = "unlink"
                 /\ \E j \in DOMAIN trace :
                       /\ DeletesSource(i, j)
                       /\ trace[j].ev = "rmtree"

C14_Witness ==
    /\ Succeeded
    /\ script = "new"
    /\ ImgFiles(MainListing) = {}
    /\ MainListing # {}
    /\ Products("_RTC.tif") = {}
    /\ \E j \in DOMAIN trace :
           trace[j] = Deletion("rmtree", "Terrain-Correction.data")

(* C15, as stated: whenever a sidecar is written for a band file, its       *)
(* band-code value is the two characters before the band file's extension   *)
(* and its acquisition-year value is the 4-character substring of the scene *)
(* identifier at characters 17 to 20 (counted from 0).                      *)
SidecarOf(f) ==
    "/output/" \o args.granule \o "_" \o BandCode(f) \o "_RTC.tif.xml"

WritesSidecar == AtStmt("export") /\ ph = "xml"

C15_SidecarValues ==
    [][ WritesSidecar
        => /\ SidecarOf(cur) \in DOMAIN output'
           /\ output'[SidecarOf(cur)].kind = "xml"
           /\ output'[SidecarOf(cur)].polarization = BandCode(cur)
           /\ output'[SidecarOf(cur)].input_granule = args.granule
           /\ Len(args.granule) >= 21
           /\ output'[SidecarOf(cur)].acquisition_year =
                 SubSeq(args.granule, 18, 21)
      ]_vars

(* C15, amended: as stated for scene identifiers of at least 21 characters; *)
(* for a shorter one the acquisition-year value is what the identifier has  *)
(* from character 17 on, fewer than 4 characters or none.                   *)
CharsFrom17(granule) ==
    IF Len(granule) >= 21 THEN SubSeq(granule, 18, 21)
    ELSE IF Len(granule) > 17 THEN SubSeq(granule, 18, Len(granule))
    ELSE ""

C15_SidecarValuesWhereDefined ==
    [][ WritesSidecar
        => /\ SidecarOf(cur) \in DOMAIN output'
           /\ output'[SidecarOf(cur)].kind = "xml"
           /\ output'[SidecarOf(cur)].polarization = BandCode(cur)
           /\ output'[SidecarOf(cur)].input_granule = args.granule
           /\ output'[SidecarOf(cur)].acquisition_year =
                 CharsFrom17(args.granule)
           /\ Len(args.granule) >= 21
              => Len(output'[SidecarOf(cur)].acquisition_year) = 4
      ]_vars

C15_Witness ==
    \E q \in DOMAIN output :
        /\ output[q].kind = "xml"
        /\ output[q].polarization = "VH"
        /\ output[q].acquisition_year = "2019"
        /\ Len(args.granule) > 21

(* C16: whenever a stage is about to be invoked or is running, the artifact *)
(* it reads is on disk (its file, and the data directory of a stage         *)
(* output); whenever an export is under way, its source artifact is on      *)
(* disk, with the band file being converted in it; and no stage is invoked  *)
(* on a path the run has deleted before.                                    *)
SourceOf(e) ==
    LET k == CHOOSE n \in DOMAIN e.cmdline : StartsWith(e.cmdline[n], "-Ssource=")
    IN  SubSeq(e.cmdline[k], Len("-Ssource=") + 1, Len(e.cmdline[k]))

OnDisk(p) ==
    /\ IsFile(fs, p)
    /\ EndsWith(p, ".dim") => IsDir(fs, CompanionDir(p))

C16_NoUseAfterDelete ==
    /\ AtStmt("gpt") => OnDisk(InputFile(Stmt, env))
    /\ AtStmt("export")
       => /\ IsDir(fs, DataDir(Stmt, env))
          /\ IsFile(fs, Replace(DataDir(Stmt, env), ".data", ".dim"))
          /\ ph \in {"translate", "addo", "retile", "xml"}
             => cur \in fs[DataDir(Stmt, env)].entries
          /\ ph \in {"addo", "retile"} => IsFile(fs, TempFile)
    /\ \A i \in DOMAIN trace :
          IsGptCall(trace[i])
          => \A j \in 1 .. (i - 1) :
                ~(IsDeletion(trace[j]) /\ trace[j].path = SourceOf(trace[i]))

C16_Witness ==
    /\ AtStmt("gpt")
    /\ Stmt.line = 169
    /\ ph = "running"
    /\ Truthy(args.layover)
    /\ OnDisk("Terrain-Flattening.dim")
    /\ \E j \in DOMAIN trace :
           trace[j] = Deletion("rmtree", "Terrain-Correction.data")

(* C17: whenever a stage is about to start, no file or directory bearing    *)
(* its output name is on disk; with the layover flag set, the main          *)
(* Terrain-Correction is invoked only after the layover branch's            *)
(* Terrain-Correction artifact has been listed for export and both its      *)
(* parts deleted; and every export reads, and every product holds, bands    *)
(* written by the stage that precedes that export in its own branch.        *)
TcDim  == "Terrain-Correction.dim"
TcData == "Terrain-Correction.data"

\* the stage whose output the export at position k of the program reads
ProducerLine(k) == Prog[k - 1].line

LayoverArtifactGoneBefore(i) ==
    \E u \in 2 .. (i - 2) :
        /\ trace[u] = Deletion("unlink", TcDim)
        /\ trace[u + 1] = Deletion("rmtree", TcData)
        /\ \E l \in 2 .. (u - 1) :
              /\ IsListing(trace[l])
              /\ trace[l].line = 167
              /\ trace[l].path = TcData
              /\ \E c \in 1 .. (l - 1) :
                    /\ IsGptCall(trace[c])
                    /\ trace[c].line = 166
                    /\ trace[c].rc = 0

C17_OneTerrainCorrectionAtATime ==
    /\ (AtStmt("gpt") /\ ph = "idle")
       => /\ ~Exists(fs, Stmt.target \o ".dim")
          /\ ~Exists(fs, Stmt.target \o ".data")
    /\ (Exists(fs, TcDim) /\ Exists(fs, TcData))
       => fs[TcDim].by = fs[TcData].by
    /\ Truthy(args.layover)
       => \A i \in DOMAIN trace :
             (IsGptCall(trace[i]) /\ trace[i].line = 169)
             => LayoverArtifactGoneBefore(i)
    /\ (AtStmt("export") /\ ph # "idle")
       => /\ fs[DataDir(Stmt, env)].by = ProducerLine(ip)
          /\ IsFile(fs, TempFile) => fs[TempFile].by = ProducerLine(ip)
    /\ \A p \in DOMAIN output :
          /\ EndsWith(p, "_LS.tif") => output[p].by = 166
          /\ EndsWith(p, "_RTC.tif") => output[p].by \in {169, 109}

C17_Witness ==
    /\ Truthy(args.layover)
    /\ AtStmt("export")
    /\ Stmt.line = 172
    /\ ph = "addo"
    /\ fs[TcData].by = 169
    /\ fs[TempFile].by = 169
    /\ \E p \in DOMAIN output : output[p].by = 166

(* C18: in every reachable state the artifacts in the working directory     *)
(* (the download, and every stage output of which the primary file or the   *)
(* data directory exists), together with the artifact a running stage is    *)
(* writing, number at most two when the layover flag is unset and at most   *)
(* three when it is set; three are only ever Terrain-Flattening,            *)
(* SAR-Simulation and Terrain-Correction.                                   *)
ArtifactName(p) ==
    IF EndsWith(p, ".dim") THEN SubSeq(p, 1, Len(p) - Len(".dim"))
    ELSE IF EndsWith(p, ".data") THEN SubSeq(p, 1, Len(p) - Len(".data"))
    ELSE p

BeingWritten ==
    IF AtStmt("gpt") /\ ph = "running" THEN {Stmt.target} ELSE {}

LiveArtifacts ==
    { ArtifactName(p) : p \in DOMAIN fs \ {TempFile} } \cup BeingWritten

C18_BoundedLiveArtifacts ==
    /\ Cardinality(LiveArtifacts) <= IF Truthy(args.layover) THEN 3 ELSE 2
    /\ Cardinality(LiveArtifacts) = 3
       => LiveArtifacts
          = {"Terrain-Flattening", "SAR-Simulation", "Terrain-Correction"}

C18_Witness ==
    /\ Truthy(args.layover)
    /\ AtStmt("gpt")
    /\ Stmt.line = 166
    /\ ph = "running"
    /\ Cardinality(LiveArtifacts) = 3

\* with the flag unset the bound of two is met
C18_WitnessUnset ==
    /\ ~Truthy(args.layover)
    /\ script = "new"
    /\ AtStmt("gpt")
    /\ Stmt.line = 169
    /\ ph = "running"
    /\ Cardinality(LiveArtifacts) = 2

====
